---- MODULE Spec2Model ----
(***************************************************************************)
(* Model of the embedding sidecar (sidecar/rust/src/main.rs): the Model    *)
(* Store (EmbeddingModel), its load and embed operations, the five RPC     *)
(* handlers of LLMServiceImpl behind one tokio Mutex, and the streaming    *)
(* task spawned by generate with its bounded channel.                      *)
(***************************************************************************)
EXTENDS Integers, Sequences, FiniteSets, TLC

(***************************************************************************)
(* Bounds of the model.                                                    *)
(***************************************************************************)
NClients == 2
MaxLoads == 2
MaxHidden == 2
MaxHeader == 2
MaxStreams == 1

(***************************************************************************)
(* Program constants.                                                      *)
(***************************************************************************)
DefaultDim == 384
ChannelCapacity == 4
VocabSize == 30522
ContextSize == 512
ValuesPerLine == 8

\* Option values: None is the empty sequence, Some(x) the one-element sequence
None == <<>>

Some(x) == << x >>

Unwrap(o) == o[1]

Clients == 1..NClients
HiddenSizes == 1..MaxHidden

\* model_path / text inputs are strings, kept as sequences of characters
Sources == { <<"m">>, <<"o", "/", "m">> }
Texts == { <<>>, <<"a">> }

(***************************************************************************)
(* Small arithmetic and sequence helpers.                                  *)
(***************************************************************************)
RECURSIVE Pow(_, _)
Pow(b, n) == IF n = 0 THEN 1 ELSE b * Pow(b, n - 1)

RECURSIVE SumSeq(_)
SumSeq(s) == IF s = <<>> THEN 0 ELSE Head(s) + SumSeq(Tail(s))

\* F(x) with the argument x evaluated once, as Rust evaluates an argument
Once(F(_), x) == CHOOSE r \in {F(y) : y \in {x}} : TRUE

Take(s, n) == Once(LAMBDA t : SubSeq(t, 1, IF n < Len(t) THEN n ELSE Len(t)), s)

IsPrefix(s, t) == Len(s) <= Len(t) /\ SubSeq(t, 1, Len(s)) = s

Last(s) == s[Len(s)]

Contains(s, ch) == \E i \in 1..Len(s) : s[i] = ch

(***************************************************************************)
(* 32-bit floats.  A value is the record of its IEEE-754 fields; its bit   *)
(* pattern (f32::to_bits) is kept as two 16-bit limbs <<hi, lo>>.          *)
(***************************************************************************)
F32(s, e, m) == [s |-> s, e |-> e, m |-> m]

\* the two limbs in the wrong order
to_bitsSwapped(x) == << x.m % 65536, x.s * 32768 + x.e * 128 + (x.m \div 65536) >>

to_bits(x) == << x.s * 32768 + x.e * 128 + (x.m \div 65536), x.m % 65536 >>

from_bits(b) ==
    F32(b[1] \div 32768, (b[1] % 32768) \div 128, (b[1] % 128) * 65536 + b[2])

IsNaN(x) == x.e = 255 /\ x.m # 0

abs(x) == F32(0, x.e, x.m)

\* a > b for two non-negative floats
GtAbs(a, b) ==
    /\ ~IsNaN(a)
    /\ ~IsNaN(b)
    /\ \/ a.e > b.e
       \/ a.e = b.e /\ a.m > b.m

\* f32::max and f32::min return the other operand when one is NaN
f32max(a, b) == IF IsNaN(b) THEN a ELSE IF IsNaN(a) THEN b
                ELSE IF GtAbs(b, a) THEN b ELSE a

f32min(a, b) == IF IsNaN(b) THEN a ELSE IF IsNaN(a) THEN b
                ELSE IF GtAbs(a, b) THEN b ELSE a

\* the literal 1e-6 as f32 (0x358637bd)
Epsilon == F32(0, 107, 407485)

(***************************************************************************)
(* Text formatting.                                                        *)
(***************************************************************************)
HexDigits == << "0", "1", "2", "3", "4", "5", "6", "7",
                "8", "9", "a", "b", "c", "d", "e", "f" >>

DecDigits == << "0", "1", "2", "3", "4", "5", "6", "7", "8", "9" >>

\* four lowercase hexadecimal digits of a 16-bit limb, zero padded
Hex4(n) == << HexDigits[(n \div 4096) + 1], HexDigits[((n \div 256) % 16) + 1],
              HexDigits[((n \div 16) % 16) + 1], HexDigits[(n % 16) + 1] >>

\* format!("{:08x}", val.to_bits())
Hex8(b) == Hex4(b[1]) \o Hex4(b[2])

HexVal(ch) == CHOOSE i \in 0..15 : HexDigits[i + 1] = ch

ParseHex4(s) == HexVal(s[1]) * 4096 + HexVal(s[2]) * 256 + HexVal(s[3]) * 16 + HexVal(s[4])

\* the inverse reading of an 8-digit hexadecimal token
ParseHex8(s) == << ParseHex4(SubSeq(s, 1, 4)), ParseHex4(SubSeq(s, 5, 8)) >>

\* format!("{}", n) for a non-negative integer
RECURSIVE Dec(_)
Dec(n) == IF n < 10 THEN << DecDigits[n + 1] >>
          ELSE Dec(n \div 10) \o << DecDigits[(n % 10) + 1] >>

\* value * 10^4 rounded to an integer (ties to even), for 0 <= value < 4096
Scaled4(x) ==
    IF x.e < 108 THEN 0
    ELSE LET M  == 8388608 + x.m
             k  == 150 - x.e
             A  == (M \div 4096) * 10000
             B  == (M % 4096) * 10000
             Hi == A + (B \div 4096)
             Br == B % 4096
             d  == Pow(2, k - 12)
             q  == Hi \div d
             r  == Hi % d
             c  == (2 * Br) \div 4096
             lo == (2 * Br) % 4096
             up == \/ 2 * r + c > d
                   \/ 2 * r + c = d /\ (lo > 0 \/ q % 2 = 1)
         IN  IF up THEN q + 1 ELSE q

\* format!("{:.4}", x) for a non-negative float below 4096
Fmt4(x) ==
    Once(LAMBDA n :
            Dec(n \div 10000) \o << "." >> \o
            << DecDigits[((n \div 1000) % 10) + 1], DecDigits[((n \div 100) % 10) + 1],
               DecDigits[((n \div 10) % 10) + 1], DecDigits[(n % 10) + 1] >>,
         Scaled4(x))

(***************************************************************************)
(* The Model Store (struct EmbeddingModel) and the embedding pipeline.     *)
(* A model handle records the load that built it and the hidden size of    *)
(* its configuration; a tokenizer handle records the load that parsed it.  *)
(***************************************************************************)
ModelHandle(lid, hidden) == [lid |-> lid, hidden |-> hidden]

TokenizerHandle(lid) == [lid |-> lid]

\* EmbeddingModel::new
NewStore == [ model |-> None, tokenizer |-> None, device |-> "Cpu",
              model_path |-> <<>>, embedding_dim |-> DefaultDim ]

\* tokenizer.encode(text, true): ids with the boundary tokens added
CharId(tok, ch) == 10 + tok.lid

Encode(tok, text) ==
    << 1 >> \o [i \in 1..Len(text) |-> CharId(tok, text[i])] \o << 2 >>

\* values the encoder can produce (all below 4096 in magnitude)
ValueTable == << F32(0, 127, 0), F32(1, 126, 3474675), F32(0, 0, 0),
                 F32(0, 122, 0), F32(1, 103, 2870767) >>

\* model.forward(..), mean(1), squeeze(0), to_vec1: a vector of hidden-size
\* floats that is a fixed function of the model and the token ids
Pooled(model, ids) ==
    [i \in 1..model.hidden |->
        ValueTable[((3 * model.lid + SumSeq(ids) + Len(ids) + i) % Len(ValueTable)) + 1]]

\* the value EmbeddingModel::embed returns when no step of it fails
EmbedValue(st, text) == Pooled(Unwrap(st.model), Encode(Unwrap(st.tokenizer), text))

\* the check dropped: every Store counts as loaded
IsLoadedAlways(st) == TRUE

\* the branch on model.model.is_some() in the handlers
IsLoaded(st) == st.model # None

(***************************************************************************)
(* Presentation of a vector by generate.                                   *)
(***************************************************************************)
HeaderLit1 == <<"E", "m", "b", "e", "d", "d", "i", "n", "g", " ", "g", "e", "n", "e", "r", "a", "t", "e", "d", " ", "f", "o", "r", ":", " ", "'">>
HeaderLit2 == <<"'", "\n", "D", "i", "m", ":", " ">>
HeaderLit3 == <<" ", "|", " ", "N", "o", "n", "-", "z", "e", "r", "o", ":", " ">>
HeaderLit4 == <<" ", "|", " ", "R", "a", "n", "g", "e", ":", " ", "[">>
HeaderLit5 == <<",", " ">>
HeaderLit6 == <<"]", "\n", "\n", "V", "e", "c", "t", "o", "r", " ", "(", "h", "e", "x", ")", ":", "\n">>

NonZeroCount(v) == Cardinality({i \in 1..Len(v) : GtAbs(abs(v[i]), Epsilon)})

RECURSIVE FoldMax(_, _)
FoldMax(a, v) == IF v = <<>> THEN a ELSE FoldMax(f32max(a, abs(Head(v))), Tail(v))

RECURSIVE FoldMin(_, _)
FoldMin(a, v) == IF v = <<>> THEN a ELSE FoldMin(f32min(a, abs(Head(v))), Tail(v))

\* the header string, one element per character
HeaderText(prompt, v) ==
    HeaderLit1 \o prompt \o HeaderLit2 \o Dec(Len(v)) \o HeaderLit3 \o
    Dec(NonZeroCount(v)) \o HeaderLit4 \o Once(Fmt4, FoldMin(F32(0, 0, 0), v)) \o
    HeaderLit5 \o Once(Fmt4, FoldMax(F32(0, 0, 0), v)) \o HeaderLit6

\* the characters of the header that the model streams
HeaderChars(prompt, v) == Take(HeaderText(prompt, v), MaxHeader)

Chunk(text, done, n) == [text |-> text, done |-> done, tokens_generated |-> n]

HeaderChunk(ch) == Chunk(<< ch >>, FALSE, 0)

\* i is the zero-based index of the value
ValueText(val, i) ==
    Hex8(to_bits(val)) \o (IF (i + 1) % ValuesPerLine = 0 THEN << "\n" >> ELSE << " " >>)

\* the counter taken as the number of values sent so far
ValueChunkOneBased(val, i) == Chunk(ValueText(val, i), FALSE, i + 1)

\* lines 226-230
ValueChunk(val, i) == Chunk(ValueText(val, i), FALSE, i)

\* the counter of the last value instead of the length
FinalChunkLastIndex(v) == Chunk(<<>>, TRUE, Len(v) - 1)

FinalChunk(v) == Chunk(<<>>, TRUE, Len(v))

\* gRPC statuses
Status(code, msg) == [code |-> code, message |-> msg]

NotInitialized == Status("failed_precondition", "Model not initialized")

EmptyEmbedding == Status("internal", "Failed to generate embedding")

\* the pipeline error passed on with another status code
EmbeddingErrorUnknown(e) == Status("unknown", << "Embedding error: ", e >>)

\* lines 244 and 262
EmbeddingError(e) == Status("internal", << "Embedding error: ", e >>)

(***************************************************************************)
(* Results (anyhow::Result) and the errors of load and embed.              *)
(***************************************************************************)
Ok(v) == [ok |-> TRUE, val |-> v, err |-> "none"]

Err(e) == [ok |-> FALSE, val |-> <<>>, err |-> e]

\* what the environment can make of one embed call that finds a model
PipelineOutcomes == {"ok", "Tokenization failed", "Inference failed"}

\* EmbeddingModel::embed
ModelEmbed(st, text, outcome) ==
    IF st.model = None THEN Err("Model not loaded")
    ELSE IF st.tokenizer = None THEN Err("Tokenizer not loaded")
    ELSE IF outcome # "ok" THEN Err(outcome)
    ELSE Ok(EmbedValue(st, text))

ArtifactNames == << "tokenizer.json", "config.json", "model.safetensors" >>

\* which of the three artifacts the directory or repository holds
FileStates == [1..3 -> BOOLEAN]

LoadError(kind, file) == [kind |-> kind, file |-> file]

\* the local existence checks with config.json looked for first
ResolveConfigFirst(path, files, apiOk, tokOk) ==
    IF Contains(path, "/")
    THEN IF ~apiOk THEN LoadError("hub", "api")
         ELSE IF ~files[1] THEN LoadError("hub", ArtifactNames[1])
         ELSE IF ~files[2] THEN LoadError("hub", ArtifactNames[2])
         ELSE IF ~files[3] THEN LoadError("hub", ArtifactNames[3])
         ELSE IF ~tokOk THEN LoadError("parse", ArtifactNames[1])
         ELSE LoadError("ok", "")
    ELSE IF ~files[2] THEN LoadError("not found", ArtifactNames[2])
         ELSE IF ~files[1] THEN LoadError("not found", ArtifactNames[1])
         ELSE IF ~files[3] THEN LoadError("not found", ArtifactNames[3])
         ELSE IF ~tokOk THEN LoadError("parse", ArtifactNames[1])
         ELSE LoadError("ok", "")

\* lines 42-75: resolution of the source, the existence checks and the
\* tokenizer parse; "ok" or the error that ends the load
Resolve(path, files, apiOk, tokOk) ==
    IF Contains(path, "/")
    THEN IF ~apiOk THEN LoadError("hub", "api")
         ELSE IF ~files[1] THEN LoadError("hub", ArtifactNames[1])
         ELSE IF ~files[2] THEN LoadError("hub", ArtifactNames[2])
         ELSE IF ~files[3] THEN LoadError("hub", ArtifactNames[3])
         ELSE IF ~tokOk THEN LoadError("parse", ArtifactNames[1])
         ELSE LoadError("ok", "")
    ELSE IF ~files[1] THEN LoadError("not found", ArtifactNames[1])
         ELSE IF ~files[2] THEN LoadError("not found", ArtifactNames[2])
         ELSE IF ~files[3] THEN LoadError("not found", ArtifactNames[3])
         ELSE IF ~tokOk THEN LoadError("parse", ArtifactNames[1])
         ELSE LoadError("ok", "")

(***************************************************************************)
(* State.                                                                  *)
(***************************************************************************)
VARIABLES
    store,      \* the EmbeddingModel behind the mutex
    lock,       \* holder of the mutex, 0 when free
    req,        \* per client: the handler invocation in progress
    resp,       \* per client: the last unary response received
    stream,     \* per client: the streaming task and channel of its generate call
    loads,      \* number of load calls started so far
    lastSucc,   \* the load that last returned Ok, 0 when none has
    lastSource  \* the model_path that load was given

vars == << store, lock, req, resp, stream, loads, lastSucc, lastSource >>

IdleReq == [ op |-> "none", arg |-> <<>>, pc |-> "idle", lid |-> 0,
             tokenizer |-> None, hidden |-> 0, model |-> None,
             result |-> Ok(<<>>), store0 |-> NewStore,
             files |-> [i \in 1..3 |-> TRUE] ]

NoResp == [kind |-> "none"]

NoStream == [ pc |-> "none", is_loaded |-> FALSE, result |-> Ok(<<>>),
              prompt |-> <<>>, i |-> 0, chan |-> <<>>, connected |-> FALSE,
              emitted |-> <<>>, received |-> <<>>, sendFailed |-> FALSE,
              gen |-> 0, header |-> <<>> ]

\* LLMServiceImpl::default
Init ==
    /\ store = NewStore
    /\ lock = 0
    /\ req = [c \in Clients |-> IdleReq]
    /\ resp = [c \in Clients |-> NoResp]
    /\ stream = [c \in Clients |-> NoStream]
    /\ loads = 0
    /\ lastSucc = 0
    /\ lastSource = <<>>

PendingLoads == Cardinality({c \in Clients : req[c].op = "init" /\ req[c].pc = "lock"})

\* generate calls in flight, their streaming tasks included
OpenStreams == Cardinality({c \in Clients : req[c].op = "generate"})

(***************************************************************************)
(* A client issues a request; the handler starts by awaiting the mutex.    *)
(***************************************************************************)
Call(c) ==
    /\ req[c].pc = "idle"
    /\ \E op \in {"init", "embed", "generate", "model_info", "health"} :
         \E arg \in Sources \cup Texts :
            /\ op = "init" => arg \in Sources /\ loads + PendingLoads < MaxLoads
            /\ op \in {"embed", "generate"} => arg \in Texts
            /\ op \in {"model_info", "health"} => arg = <<>>
            /\ op = "generate" => OpenStreams < MaxStreams
            /\ req' = [req EXCEPT ![c] = [IdleReq EXCEPT !.op = op, !.arg = arg, !.pc = "lock"]]
    /\ resp' = [resp EXCEPT ![c] = NoResp]
    /\ UNCHANGED << store, lock, stream, loads, lastSucc, lastSource >>

\* the guard taken without waiting for the holder to release it
AcquireNoWait(c) ==
    /\ req[c].pc = "lock"
    /\ lock' = c
    /\ IF req[c].op = "init"
       THEN /\ loads' = loads + 1
            /\ req' = [req EXCEPT ![c].pc = "resolve", ![c].lid = loads + 1,
                                  ![c].store0 = store]
       ELSE /\ loads' = loads
            /\ req' = [req EXCEPT ![c].pc = "run"]
    /\ UNCHANGED << store, resp, stream, lastSucc, lastSource >>

\* self.model.lock().await
Acquire(c) ==
    /\ req[c].pc = "lock"
    /\ lock = 0
    /\ lock' = c
    /\ IF req[c].op = "init"
       THEN /\ loads' = loads + 1
            /\ req' = [req EXCEPT ![c].pc = "resolve", ![c].lid = loads + 1,
                                  ![c].store0 = store]
       ELSE /\ loads' = loads
            /\ req' = [req EXCEPT ![c].pc = "run"]
    /\ UNCHANGED << store, resp, stream, lastSucc, lastSource >>

(***************************************************************************)
(* EmbeddingModel::load, step by step, run by init_model under the mutex.  *)
(***************************************************************************)
LoadFail(c, e) == [req EXCEPT ![c].pc = "respond", ![c].result = Err(e)]

\* the Store emptied before the new artifacts are resolved
LoadResolveClears(c) ==
    /\ req[c].pc = "resolve"
    /\ \E files \in FileStates, apiOk \in BOOLEAN, tokOk \in BOOLEAN :
         LET r == Resolve(req[c].arg, files, apiOk, tokOk)
         IN  req' = IF r.kind = "ok"
                    THEN [req EXCEPT ![c].pc = "config", ![c].files = files,
                                     ![c].tokenizer = Some(TokenizerHandle(req[c].lid))]
                    ELSE [LoadFail(c, r) EXCEPT ![c].files = files]
    /\ store' = [store EXCEPT !.model = None, !.tokenizer = None]
    /\ UNCHANGED << lock, resp, stream, loads, lastSucc, lastSource >>

\* the parsed tokenizer stored in the Store at once instead of at the end
LoadResolveEarlyStore(c) ==
    /\ req[c].pc = "resolve"
    /\ \E files \in FileStates, apiOk \in BOOLEAN, tokOk \in BOOLEAN :
         LET r == Resolve(req[c].arg, files, apiOk, tokOk)
         IN  IF r.kind = "ok"
             THEN /\ req' = [req EXCEPT ![c].pc = "config", ![c].files = files,
                                        ![c].tokenizer = Some(TokenizerHandle(req[c].lid))]
                  /\ store' = [store EXCEPT !.tokenizer = Some(TokenizerHandle(req[c].lid))]
             ELSE /\ req' = [LoadFail(c, r) EXCEPT ![c].files = files]
                  /\ store' = store
    /\ UNCHANGED << lock, resp, stream, loads, lastSucc, lastSource >>

\* lines 42-75; files records which artifacts the source held
LoadResolve(c) ==
    /\ req[c].pc = "resolve"
    /\ \E files \in FileStates, apiOk \in BOOLEAN, tokOk \in BOOLEAN :
         LET r == Resolve(req[c].arg, files, apiOk, tokOk)
         IN  req' = IF r.kind = "ok"
                    THEN [req EXCEPT ![c].pc = "config", ![c].files = files,
                                     ![c].tokenizer = Some(TokenizerHandle(req[c].lid))]
                    ELSE [LoadFail(c, r) EXCEPT ![c].files = files]
    /\ UNCHANGED << store, lock, resp, stream, loads, lastSucc, lastSource >>

\* the source recorded together with the dimension, before the fallible steps
LoadConfigStoresPath(c) ==
    /\ req[c].pc = "config"
    /\ \/ /\ \E e \in {LoadError("read", ArtifactNames[2]), LoadError("parse", ArtifactNames[2])} :
               req' = LoadFail(c, e)
          /\ store' = store
       \/ \E h \in HiddenSizes :
            /\ store' = [store EXCEPT !.embedding_dim = h, !.model_path = req[c].arg]
            /\ req' = [req EXCEPT ![c].pc = "build", ![c].hidden = h]
    /\ UNCHANGED << lock, resp, stream, loads, lastSucc, lastSource >>

\* lines 78-80
LoadConfig(c) ==
    /\ req[c].pc = "config"
    /\ \/ /\ \E e \in {LoadError("read", ArtifactNames[2]), LoadError("parse", ArtifactNames[2])} :
               req' = LoadFail(c, e)
          /\ store' = store
       \/ \E h \in HiddenSizes :
            /\ store' = [store EXCEPT !.embedding_dim = h]
            /\ req' = [req EXCEPT ![c].pc = "build", ![c].hidden = h]
    /\ UNCHANGED << lock, resp, stream, loads, lastSucc, lastSource >>

\* lines 85-88
LoadBuild(c) ==
    /\ req[c].pc = "build"
    /\ \/ \E e \in {LoadError("mmap", ArtifactNames[3]), LoadError("build", ArtifactNames[3])} :
               req' = LoadFail(c, e)
       \/ req' = [req EXCEPT ![c].pc = "set_model",
                             ![c].model = Some(ModelHandle(req[c].lid, req[c].hidden))]
    /\ UNCHANGED << store, lock, resp, stream, loads, lastSucc, lastSource >>

\* line 90
LoadSetModel(c) ==
    /\ req[c].pc = "set_model"
    /\ store' = [store EXCEPT !.model = req[c].model]
    /\ req' = [req EXCEPT ![c].pc = "set_tokenizer"]
    /\ UNCHANGED << lock, resp, stream, loads, lastSucc, lastSource >>

\* the tokenizer assignment left out
LoadSetTokenizerSkipped(c) ==
    /\ req[c].pc = "set_tokenizer"
    /\ store' = store
    /\ req' = [req EXCEPT ![c].pc = "set_path"]
    /\ UNCHANGED << lock, resp, stream, loads, lastSucc, lastSource >>

\* line 91
LoadSetTokenizer(c) ==
    /\ req[c].pc = "set_tokenizer"
    /\ store' = [store EXCEPT !.tokenizer = req[c].tokenizer]
    /\ req' = [req EXCEPT ![c].pc = "set_path"]
    /\ UNCHANGED << lock, resp, stream, loads, lastSucc, lastSource >>

\* lines 92-95
LoadSetPath(c) ==
    /\ req[c].pc = "set_path"
    /\ store' = [store EXCEPT !.model_path = req[c].arg]
    /\ req' = [req EXCEPT ![c].pc = "respond", ![c].result = Ok(<<>>)]
    /\ lastSucc' = req[c].lid
    /\ lastSource' = req[c].arg
    /\ UNCHANGED << lock, resp, stream, loads >>

\* a failed load reported as a transport error
InitResponseStatus(path, result) ==
    IF result.ok
    THEN [ kind |-> "init", transport |-> "ok", success |-> TRUE,
           message |-> [text |-> "Embedding model loaded from ", path |-> path,
                        err |-> LoadError("ok", "")] ]
    ELSE [ kind |-> "init", transport |-> "err",
           status |-> Status("internal", result.err) ]

\* the response init_model builds from the result of load (lines 150-159)
InitResponse(path, result) ==
    IF result.ok
    THEN [ kind |-> "init", transport |-> "ok", success |-> TRUE,
           message |-> [text |-> "Embedding model loaded from ", path |-> path,
                        err |-> LoadError("ok", "")] ]
    ELSE [ kind |-> "init", transport |-> "ok", success |-> FALSE,
           message |-> [text |-> "Failed to load model: ", path |-> <<>>,
                        err |-> result.err] ]

\* the guard dropped only when the load succeeded
InitRespondKeepsLockOnError(c) ==
    /\ req[c].pc = "respond"
    /\ resp' = [resp EXCEPT ![c] = InitResponse(req[c].arg, req[c].result)]
    /\ req' = [req EXCEPT ![c] = IdleReq]
    /\ lock' = IF req[c].result.ok THEN 0 ELSE lock
    /\ UNCHANGED << store, stream, loads, lastSucc, lastSource >>

\* init_model returns: the response is sent and the guard is dropped
InitRespond(c) ==
    /\ req[c].pc = "respond"
    /\ resp' = [resp EXCEPT ![c] = InitResponse(req[c].arg, req[c].result)]
    /\ req' = [req EXCEPT ![c] = IdleReq]
    /\ lock' = 0
    /\ UNCHANGED << store, stream, loads, lastSucc, lastSource >>

(***************************************************************************)
(* The unary handlers embed, model_info and health.                        *)
(***************************************************************************)
\* lines 256-266
EmbedResponse(st, text, outcome) ==
    IF IsLoaded(st)
    THEN LET r == ModelEmbed(st, text, outcome)
         IN  IF r.ok
             THEN [ kind |-> "embed", transport |-> "ok", vector |-> r.val,
                    dim |-> st.embedding_dim, text |-> text ]
             ELSE [ kind |-> "embed", transport |-> "err",
                    status |-> EmbeddingError(r.err), text |-> text ]
    ELSE [ kind |-> "embed", transport |-> "err", status |-> NotInitialized,
           text |-> text ]

\* gen records the load whose result the Store held when r was computed
Stamp(r) == [gen |-> lastSucc] @@ r

\* embedding_dim refreshed from the length of the vector just computed
EmbedWritesDim(c) ==
    /\ req[c].pc = "run"
    /\ req[c].op = "embed"
    /\ \E outcome \in PipelineOutcomes :
         LET r == EmbedResponse(store, req[c].arg, outcome)
         IN  /\ resp' = [resp EXCEPT ![c] = Stamp(r)]
             /\ store' = IF r.transport = "ok"
                         THEN [store EXCEPT !.embedding_dim = Len(r.vector)]
                         ELSE store
    /\ req' = [req EXCEPT ![c] = IdleReq]
    /\ lock' = 0
    /\ UNCHANGED << stream, loads, lastSucc, lastSource >>

\* lines 254-268
Embed(c) ==
    /\ req[c].pc = "run"
    /\ req[c].op = "embed"
    /\ \E outcome \in PipelineOutcomes :
         resp' = [resp EXCEPT ![c] = Stamp(EmbedResponse(store, req[c].arg, outcome))]
    /\ req' = [req EXCEPT ![c] = IdleReq]
    /\ lock' = 0
    /\ UNCHANGED << store, stream, loads, lastSucc, lastSource >>

\* lines 273-282
ModelInfoResponse(st) ==
    [ kind |-> "model_info", transport |-> "ok",
      model_name |-> IF IsLoaded(st)
                     THEN [path |-> st.model_path, tag |-> " (candle BERT)"]
                     ELSE [path |-> <<>>, tag |-> "Not loaded"],
      vocab_size |-> VocabSize, context_size |-> ContextSize, backend |-> "candle" ]

ModelInfo(c) ==
    /\ req[c].pc = "run"
    /\ req[c].op = "model_info"
    /\ resp' = [resp EXCEPT ![c] = Stamp(ModelInfoResponse(store))]
    /\ req' = [req EXCEPT ![c] = IdleReq]
    /\ lock' = 0
    /\ UNCHANGED << store, stream, loads, lastSucc, lastSource >>

\* healthy only when a model is loaded
HealthResponseLoadedOnly(st) ==
    [ kind |-> "health", transport |-> "ok", healthy |-> IsLoaded(st),
      message |-> IF IsLoaded(st)
                  THEN "Embedding service is healthy (model loaded)"
                  ELSE "Embedding service is healthy (no model)" ]

\* lines 287-294
HealthResponse(st) ==
    [ kind |-> "health", transport |-> "ok", healthy |-> TRUE,
      message |-> IF IsLoaded(st)
                  THEN "Embedding service is healthy (model loaded)"
                  ELSE "Embedding service is healthy (no model)" ]

Health(c) ==
    /\ req[c].pc = "run"
    /\ req[c].op = "health"
    /\ resp' = [resp EXCEPT ![c] = Stamp(HealthResponse(store))]
    /\ req' = [req EXCEPT ![c] = IdleReq]
    /\ lock' = 0
    /\ UNCHANGED << store, stream, loads, lastSucc, lastSource >>

(***************************************************************************)
(* generate: the embedding is computed under the mutex, the guard is       *)
(* dropped, the streaming task is spawned and the receiver returned.       *)
(***************************************************************************)
\* lines 171-177
GenerateResult(st, prompt, outcome) ==
    IF IsLoaded(st) THEN ModelEmbed(st, prompt, outcome) ELSE Ok(<<>>)

\* the guard kept while the task streams
GenerateKeepsLock(c) ==
    /\ req[c].pc = "run"
    /\ req[c].op = "generate"
    /\ \E outcome \in PipelineOutcomes :
         stream' = [stream EXCEPT ![c] =
                      [NoStream EXCEPT !.pc = "start",
                                       !.is_loaded = IsLoaded(store),
                                       !.result = GenerateResult(store, req[c].arg, outcome),
                                       !.prompt = req[c].arg,
                                       !.connected = TRUE,
                                       !.gen = lastSucc]]
    /\ resp' = [resp EXCEPT ![c] = [kind |-> "generate", transport |-> "ok"]]
    /\ req' = [req EXCEPT ![c].pc = "streaming"]
    /\ lock' = lock
    /\ UNCHANGED << store, loads, lastSucc, lastSource >>

\* lines 166-181
Generate(c) ==
    /\ req[c].pc = "run"
    /\ req[c].op = "generate"
    /\ \E outcome \in PipelineOutcomes :
         stream' = [stream EXCEPT ![c] =
                      [NoStream EXCEPT !.pc = "start",
                                       !.is_loaded = IsLoaded(store),
                                       !.result = GenerateResult(store, req[c].arg, outcome),
                                       !.prompt = req[c].arg,
                                       !.connected = TRUE,
                                       !.gen = lastSucc]]
    /\ resp' = [resp EXCEPT ![c] = [kind |-> "generate", transport |-> "ok"]]
    /\ req' = [req EXCEPT ![c].pc = "streaming"]
    /\ lock' = 0
    /\ UNCHANGED << store, loads, lastSucc, lastSource >>

\* items on the channel: Ok(GenerateResponse) or Err(Status)
OkItem(chunk) == [ok |-> TRUE, chunk |-> chunk, status |-> Status("ok", "")]

ErrItem(st) == [ok |-> FALSE, chunk |-> Chunk(<<>>, FALSE, 0), status |-> st]

\* a send that never waits for room
CanSendAlways(s) == TRUE

\* tx.send(item).await can complete: there is room, or the receiver is gone
CanSend(s) == ~s.connected \/ Len(s.chan) < ChannelCapacity

\* a failed send noted and the loop carried on
AfterSendIgnoresFailure(s, item, pc, i) ==
    IF s.connected
    THEN [s EXCEPT !.chan = Append(s.chan, item), !.emitted = Append(s.emitted, item),
                   !.pc = pc, !.i = i]
    ELSE [s EXCEPT !.sendFailed = TRUE, !.pc = pc, !.i = i]

\* the stream record after tx.send(item).await, with the task at pc and i if
\* the send succeeded and finished if it failed
AfterSend(s, item, pc, i) ==
    IF s.connected
    THEN [s EXCEPT !.chan = Append(s.chan, item), !.emitted = Append(s.emitted, item),
                   !.pc = pc, !.i = i]
    ELSE [s EXCEPT !.sendFailed = TRUE, !.pc = "done"]

\* lines 182-206 and 243-245: the branches that end the task with one error,
\* or the header formatted for the header loop
TaskStart(c) ==
    LET s == stream[c]
    IN  /\ s.pc = "start"
        /\ CanSend(s)
        /\ stream' = [stream EXCEPT ![c] =
                        IF ~s.is_loaded THEN AfterSend(s, ErrItem(NotInitialized), "done", 0)
                        ELSE IF ~s.result.ok
                             THEN AfterSend(s, ErrItem(EmbeddingError(s.result.err)), "done", 0)
                        ELSE IF s.result.val = <<>>
                             THEN AfterSend(s, ErrItem(EmptyEmbedding), "done", 0)
                        ELSE [s EXCEPT !.pc = "header",
                                       !.header = HeaderChars(s.prompt, s.result.val)]]
        /\ UNCHANGED << store, lock, req, resp, loads, lastSucc, lastSource >>

\* lines 209-218: one iteration of the header loop
TaskHeader(c) ==
    LET s == stream[c]
        h == s.header
    IN  /\ s.pc = "header"
        /\ CanSend(s)
        /\ stream' = [stream EXCEPT ![c] =
                        AfterSend(s, OkItem(HeaderChunk(h[s.i + 1])),
                                  IF s.i + 1 = Len(h) THEN "values" ELSE "header",
                                  IF s.i + 1 = Len(h) THEN 0 ELSE s.i + 1)]
        /\ UNCHANGED << store, lock, req, resp, loads, lastSucc, lastSource >>

\* lines 221-234: one iteration of the value loop
TaskValue(c) ==
    LET s == stream[c]
        v == s.result.val
    IN  /\ s.pc = "values"
        /\ CanSend(s)
        /\ stream' = [stream EXCEPT ![c] =
                        AfterSend(s, OkItem(ValueChunk(v[s.i + 1], s.i)),
                                  IF s.i + 1 = Len(v) THEN "final" ELSE "values",
                                  s.i + 1)]
        /\ UNCHANGED << store, lock, req, resp, loads, lastSucc, lastSource >>

\* lines 237-241
TaskFinal(c) ==
    LET s == stream[c]
    IN  /\ s.pc = "final"
        /\ CanSend(s)
        /\ stream' = [stream EXCEPT ![c] =
                        AfterSend(s, OkItem(FinalChunk(s.result.val)), "done", s.i)]
        /\ UNCHANGED << store, lock, req, resp, loads, lastSucc, lastSource >>

(***************************************************************************)
(* The consumer of the stream (the transport and the client behind it).    *)
(***************************************************************************)
Receive(c) ==
    /\ req[c].pc = "streaming"
    /\ stream[c].chan # <<>>
    /\ stream' = [stream EXCEPT ![c].received = Append(@, Head(stream[c].chan)),
                                ![c].chan = Tail(@)]
    /\ UNCHANGED << store, lock, req, resp, loads, lastSucc, lastSource >>

\* the client goes away: the receiver is dropped with whatever it buffered
Disconnect(c) ==
    /\ req[c].pc = "streaming"
    /\ stream[c].pc # "done"
    /\ stream' = [stream EXCEPT ![c].connected = FALSE, ![c].chan = <<>>]
    /\ req' = [req EXCEPT ![c].pc = "gone"]
    /\ UNCHANGED << store, lock, resp, loads, lastSucc, lastSource >>

\* the task has returned and the channel is drained or dropped: the call is over
StreamEnd(c) ==
    /\ req[c].pc \in {"streaming", "gone"}
    /\ stream[c].pc = "done"
    /\ stream[c].chan = <<>>
    /\ req' = [req EXCEPT ![c] = IdleReq]
    /\ stream' = [stream EXCEPT ![c] = NoStream]
    /\ UNCHANGED << store, lock, resp, loads, lastSucc, lastSource >>

Next ==
    \E c \in Clients :
        \/ Call(c)
        \/ Acquire(c)
        \/ LoadResolve(c)
        \/ LoadConfig(c)
        \/ LoadBuild(c)
        \/ LoadSetModel(c)
        \/ LoadSetTokenizer(c)
        \/ LoadSetPath(c)
        \/ InitRespond(c)
        \/ Embed(c)
        \/ ModelInfo(c)
        \/ Health(c)
        \/ Generate(c)
        \/ TaskStart(c)
        \/ TaskHeader(c)
        \/ TaskValue(c)
        \/ TaskFinal(c)
        \/ Receive(c)
        \/ Disconnect(c)
        \/ StreamEnd(c)

Spec == Init /\ [][Next]_vars

\* a step of the handler of c between taking the lock and returning
HandlerStep(c) ==
    \/ LoadResolve(c)
    \/ LoadConfig(c)
    \/ LoadBuild(c)
    \/ LoadSetModel(c)
    \/ LoadSetTokenizer(c)
    \/ LoadSetPath(c)
    \/ InitRespond(c)
    \/ Embed(c)
    \/ ModelInfo(c)
    \/ Health(c)
    \/ Generate(c)

\* a step of the streaming task of c, or the end of its stream
TaskStep(c) ==
    \/ TaskStart(c)
    \/ TaskHeader(c)
    \/ TaskValue(c)
    \/ TaskFinal(c)
    \/ StreamEnd(c)

\* a step of the call of c that the runtime or the consumer takes
Progress(c) == Acquire(c) \/ HandlerStep(c) \/ TaskStep(c) \/ Receive(c)

\* the runtime runs every handler and task that can take a step, a consumer
\* that has not left takes what is buffered, and the tokio mutex serves its
\* waiters in order, so a waiter that finds the lock free again and again
\* gets it: a call that can progress again and again does.  Nothing obliges
\* a client to call or to disconnect.
Fairness == \A c \in Clients : SF_vars(Progress(c))

FairSpec == Spec /\ Fairness

(***************************************************************************)
(* Properties.                                                             *)
(***************************************************************************)
PrecondItem == ErrItem(NotInitialized)

\* the task of c has returned without a failed send and its channel is drained
Delivered(c) ==
    /\ stream[c].pc = "done"
    /\ ~stream[c].sendFailed
    /\ stream[c].chan = <<>>

\* C1: while no initialize has succeeded, failed ones included, every embed
\* response is the precondition-failed transport error, and a generate stream
\* carries no chunk and nothing but one precondition-failed error, which is
\* what the consumer has received once the stream is over.
NeverLoadedRejects ==
    lastSucc = 0 =>
        \A c \in Clients :
            /\ resp[c].kind = "embed" =>
                  /\ resp[c].transport = "err"
                  /\ resp[c].status = NotInitialized
            /\ stream[c].pc # "none" =>
                  /\ IsPrefix(stream[c].emitted, << PrecondItem >>)
                  /\ (stream[c].pc = "done" /\ ~stream[c].sendFailed) =>
                        stream[c].emitted = << PrecondItem >>
                  /\ Delivered(c) => stream[c].received = << PrecondItem >>

\* C1 witness: after a failed initialize and no successful one, one client
\* holds the rejected embed and another has received the whole rejected stream
NeverLoadedRejectsWitness ==
    /\ lastSucc = 0
    /\ loads > 0
    /\ lock = 0
    /\ \E c, d \in Clients :
          /\ resp[c].kind = "embed"
          /\ Delivered(d)
          /\ stream[d].received = << PrecondItem >>

\* C2: when load returns an error the Store is as it was when the call took
\* the lock, whichever step failed.
FailedLoadKeepsStore ==
    \A c \in Clients :
        (req[c].pc = "respond" /\ ~req[c].result.ok) => store = req[c].store0

\* C3: every successful embed response carries a vector whose length is the
\* dim of the same response.
EmbedDimIsVectorLength ==
    \A c \in Clients :
        (resp[c].kind = "embed" /\ resp[c].transport = "ok") =>
            Len(resp[c].vector) = resp[c].dim

\* the step in which init_model returns to client c
InitReturns(c) ==
    /\ req[c].op = "init"
    /\ req[c].pc = "respond"
    /\ req'[c].pc = "idle"

\* C4: initialize always returns a successful transport response; success is
\* true exactly when the load returned Ok, which is exactly when the Store
\* holds the model this load built, and a failure carries the load's error.
InitNeverFailsTransport ==
    [][ \A c \in Clients :
          InitReturns(c) =>
            /\ resp'[c].kind = "init"
            /\ resp'[c].transport = "ok"
            /\ resp'[c].success = req[c].result.ok
            /\ resp'[c].success =
                  (store.model # None /\ Unwrap(store.model).lid = req[c].lid)
            /\ ~resp'[c].success =>
                  /\ resp'[c].message.text = "Failed to load model: "
                  /\ resp'[c].message.err = req[c].result.err
                  /\ resp'[c].message.err.kind # "ok" ]_vars

\* C4 witness: one client was told success, another failure
InitNeverFailsTransportWitness ==
    \E c, d \in Clients :
        /\ resp[c].kind = "init"
        /\ resp[c].success
        /\ resp[d].kind = "init"
        /\ ~resp[d].success

\* the stream of c presents a vector: the Store was loaded and embed returned one
Presents(c) ==
    /\ stream[c].pc # "none"
    /\ stream[c].is_loaded
    /\ stream[c].result.ok
    /\ stream[c].result.val # <<>>

IsValueItem(it) == it.ok /\ ~it.chunk.done /\ Len(it.chunk.text) > 1

IsFinalItem(it) == it.ok /\ it.chunk.done

\* the floats read back from the hex tokens of the value chunks of items
DecodedValues(items) ==
    LET vs == SelectSeq(items, IsValueItem)
    IN  [i \in 1..Len(vs) |-> from_bits(ParseHex8(SubSeq(vs[i].chunk.text, 1, 8)))]

HasFinal(items) == \E i \in 1..Len(items) : IsFinalItem(items[i])

\* C5: with the same text and the same loaded model, the value chunks of a
\* generate stream decode, in emission order, to the vector embed returned:
\* a prefix of it while the stream runs, all of it once the final chunk is out.
GenerateEncodesEmbedVector ==
    \A c, d \in Clients :
        ( /\ resp[c].kind = "embed"
          /\ resp[c].transport = "ok"
          /\ Presents(d)
          /\ stream[d].prompt = resp[c].text
          /\ stream[d].gen = resp[c].gen ) =>
            /\ IsPrefix(DecodedValues(stream[d].emitted), resp[c].vector)
            /\ IsPrefix(DecodedValues(stream[d].received), resp[c].vector)
            /\ HasFinal(stream[d].emitted) =>
                  DecodedValues(stream[d].emitted) = resp[c].vector
            /\ HasFinal(stream[d].received) =>
                  DecodedValues(stream[d].received) = resp[c].vector

\* C5 witness: a two-element vector returned by embed and a stream for the
\* same text and model received up to its final chunk
GenerateEncodesEmbedVectorWitness ==
    \E c, d \in Clients :
        /\ resp[c].kind = "embed"
        /\ resp[c].transport = "ok"
        /\ Len(resp[c].vector) = 2
        /\ Presents(d)
        /\ stream[d].prompt = resp[c].text
        /\ stream[d].gen = resp[c].gen
        /\ HasFinal(stream[d].received)

\* C6: in a stream that presents a vector, a chunk with done=true is the last
\* item, has empty text and counts the values of the vector, which are the
\* value chunks sent before it; a task that returns without a failed send has
\* sent it.
FinalChunkEndsStream ==
    \A c \in Clients :
        Presents(c) =>
            LET e == stream[c].emitted
            IN  /\ \A i \in 1..Len(e) :
                      /\ e[i].ok
                      /\ e[i].chunk.done =>
                            /\ i = Len(e)
                            /\ stream[c].pc = "done"
                            /\ e[i].chunk.text = <<>>
                            /\ e[i].chunk.tokens_generated = Len(stream[c].result.val)
                            /\ e[i].chunk.tokens_generated = Len(SelectSeq(e, IsValueItem))
                /\ (stream[c].pc = "done" /\ ~stream[c].sendFailed) =>
                      /\ e # <<>>
                      /\ Last(e).chunk.done
                /\ Delivered(c) => stream[c].received = e

\* C6 witness: a stream with header, two values and the final chunk, received whole
FinalChunkEndsStreamWitness ==
    \E c \in Clients :
        /\ Presents(c)
        /\ Delivered(c)
        /\ Len(stream[c].received) = MaxHeader + 3
        /\ Last(stream[c].received).chunk.done

LoadedMessage == "Embedding service is healthy (model loaded)"

\* C7: model_info and health never return a transport error, whether or not a
\* load had succeeded when they ran; health says healthy=true, with the
\* loaded-model message exactly when a load had succeeded.
InfoAndHealthAlwaysAnswer ==
    \A c \in Clients :
        /\ resp[c].kind = "model_info" => resp[c].transport = "ok"
        /\ resp[c].kind = "health" =>
              /\ resp[c].transport = "ok"
              /\ resp[c].healthy
              /\ (resp[c].message = LoadedMessage) = (resp[c].gen # 0)

\* C7 witness: health answered before any load succeeded, model_info after one
InfoAndHealthAlwaysAnswerWitness ==
    \E c, d \in Clients :
        /\ resp[c].kind = "health"
        /\ resp[c].gen = 0
        /\ resp[d].kind = "model_info"
        /\ resp[d].gen # 0

LoadSteps == {"resolve", "config", "build", "set_model", "set_tokenizer", "set_path", "respond"}

\* the handler of c is between taking the lock and dropping it
HoldsStore(c) == req[c].pc \in LoadSteps \cup {"run"}

\* the handler of c is about to run the embedding pipeline
Embedding(c) == req[c].pc = "run" /\ req[c].op \in {"embed", "generate"}

\* the Store holds nothing, or the model and tokenizer of the last load that
\* returned Ok
StoreWhole ==
    \/ store.model = None /\ store.tokenizer = None /\ lastSucc = 0
    \/ /\ store.model # None
       /\ store.tokenizer # None
       /\ Unwrap(store.model).lid = lastSucc
       /\ Unwrap(store.tokenizer).lid = lastSucc

\* C8: at most one handler is between taking and dropping the lock; while an
\* embedding is computed no load step can run and the Store holds the model
\* and tokenizer of one completed successful load.
StoreAccessIsExclusive ==
    /\ \A c, d \in Clients : (HoldsStore(c) /\ HoldsStore(d)) => c = d
    /\ \A c \in Clients : HoldsStore(c) => lock = c
    /\ \A c \in Clients :
          Embedding(c) =>
              /\ \A d \in Clients : req[d].pc \notin LoadSteps
              /\ StoreWhole

\* C8 witness: an embedding is being computed on a loaded Store while an
\* initialize waits for the lock
StoreAccessIsExclusiveWitness ==
    \E c, d \in Clients :
        /\ Embedding(c)
        /\ IsLoaded(store)
        /\ req[d].op = "init"
        /\ req[d].pc = "lock"

\* C9: two embed responses for the same text, computed while the same
\* successful load was the last one, carry the same vector.
EmbedIsDeterministic ==
    \A c, d \in Clients :
        ( /\ resp[c].kind = "embed"
          /\ resp[c].transport = "ok"
          /\ resp[d].kind = "embed"
          /\ resp[d].transport = "ok"
          /\ resp[c].text = resp[d].text
          /\ resp[c].gen = resp[d].gen ) =>
            resp[c].vector = resp[d].vector

\* C9 witness: two clients hold vectors for the same text from the same
\* model, a failed initialize having run since that model was loaded
EmbedIsDeterministicWitness ==
    \E c, d \in Clients :
        /\ c # d
        /\ resp[c].kind = "embed"
        /\ resp[c].transport = "ok"
        /\ resp[d].kind = "embed"
        /\ resp[d].transport = "ok"
        /\ resp[c].text = resp[d].text
        /\ resp[c].text # <<>>
        /\ resp[c].gen = resp[d].gen
        /\ loads > lastSucc

\* C10: what the consumer has received is a prefix of what the task has
\* emitted, at most 4 emitted items are buffered, and while the consumer is
\* there every emitted item is either received or still buffered, in order.
ChannelKeepsOrder ==
    \A c \in Clients :
        /\ IsPrefix(stream[c].received, stream[c].emitted)
        /\ Len(stream[c].chan) <= ChannelCapacity
        /\ stream[c].connected =>
              stream[c].emitted = stream[c].received \o stream[c].chan

\* C10 witness: the buffer is full, nothing was received yet and the task
\* still has the final chunk to send
ChannelKeepsOrderWitness ==
    \E c \in Clients :
        /\ stream[c].connected
        /\ Len(stream[c].chan) = ChannelCapacity
        /\ stream[c].pc = "final"
        /\ stream[c].received = <<>>

\* the step in which model_info returns to client c
ModelInfoReturns(c) ==
    /\ req[c].op = "model_info"
    /\ req[c].pc = "run"
    /\ req'[c].pc = "idle"

NotLoadedName == [path |-> <<>>, tag |-> "Not loaded"]

\* C11: model_info names "Not loaded" exactly when no load has returned Ok,
\* and otherwise the source of the last load that did, with the backend tag;
\* loads that failed since then do not show.
ModelInfoNamesLastSource ==
    [][ \A c \in Clients :
          ModelInfoReturns(c) =>
            /\ resp'[c].kind = "model_info"
            /\ (resp'[c].model_name = NotLoadedName) = (lastSucc = 0)
            /\ lastSucc # 0 =>
                  resp'[c].model_name = [path |-> lastSource, tag |-> " (candle BERT)"] ]_vars

\* C11 witness: model_info has answered with a source after a later load,
\* given the other source, had started and not succeeded
ModelInfoNamesLastSourceWitness ==
    \E c \in Clients :
        /\ resp[c].kind = "model_info"
        /\ resp[c].gen = 1
        /\ resp[c].model_name.path = lastSource
        /\ loads = 2
        /\ lastSucc = 1
        /\ lock = 0

\* C12: the Store starts EMPTY; once LOADED it stays LOADED in every step; an
\* initialize that returns success leaves it LOADED and one that returns
\* failure leaves it in the state it had when the call took the lock.
StoreStateMachine ==
    /\ ~IsLoaded(store)
    /\ [][ /\ IsLoaded(store) => IsLoaded(store')
           /\ \A c \in Clients :
                InitReturns(c) =>
                    IF req[c].result.ok
                    THEN IsLoaded(store')
                    ELSE IsLoaded(store') = IsLoaded(req[c].store0) ]_vars

\* C12 witness: a LOADED Store after a later initialize has failed
StoreStateMachineWitness ==
    \E c \in Clients :
        /\ resp[c].kind = "init"
        /\ ~resp[c].success
        /\ IsLoaded(store)
        /\ lastSucc = 1
        /\ loads = 2

\* a load is between its assignment of model and its assignment of tokenizer
\* (lines 90 and 91), inside one call and under the lock
BetweenAssignments == \E c \in Clients : req[c].pc = "set_tokenizer"

\* C13: model and tokenizer are both present or both absent in every state,
\* those after a load failed at any step included, outside the two
\* consecutive assignments of a succeeding load.
ModelAndTokenizerTogether ==
    BetweenAssignments \/ (store.model = None) = (store.tokenizer = None)

\* C13 witness: a load that parsed its tokenizer has failed while building
\* the model, on an empty Store
ModelAndTokenizerTogetherWitness ==
    \E c \in Clients :
        /\ req[c].pc = "respond"
        /\ ~req[c].result.ok
        /\ req[c].result.err.kind = "build"
        /\ req[c].tokenizer # None
        /\ store.model = None
        /\ store.tokenizer = None

\* the items a task sends when no send fails, from what generate captured
StreamPlan(s) ==
    IF ~s.is_loaded THEN << PrecondItem >>
    ELSE IF ~s.result.ok THEN << ErrItem(EmbeddingError(s.result.err)) >>
    ELSE IF s.result.val = <<>> THEN << ErrItem(EmptyEmbedding) >>
    ELSE LET h == HeaderChars(s.prompt, s.result.val)
             v == s.result.val
         IN  [k \in 1..Len(h) |-> OkItem(HeaderChunk(h[k]))] \o
             [k \in 1..Len(v) |-> OkItem(ValueChunk(v[k], k - 1))] \o
             << OkItem(FinalChunk(v)) >>

\* what generate captured for the task of c before it dropped the guard
Captured(c) ==
    << stream[c].is_loaded, stream[c].result, stream[c].prompt, stream[c].gen >>

\* C14: a handler computes the embedding only while it holds the lock, a
\* client whose streaming task exists does not hold it, and whatever the
\* Store becomes meanwhile the task emits a prefix of the items fixed by the
\* prompt and the vector captured before the release, that vector being the
\* one of the model loaded at that time; the captured values never change
\* while the task exists.
StreamingIndependentOfStore ==
    /\ [](\A c \in Clients :
            /\ Embedding(c) => lock = c
            /\ stream[c].pc # "none" =>
                  /\ lock # c
                  /\ req[c].pc \in {"streaming", "gone"}
                  /\ IsPrefix(stream[c].emitted, StreamPlan(stream[c]))
                  /\ Presents(c) =>
                        stream[c].result.val =
                            Pooled(ModelHandle(stream[c].gen, Len(stream[c].result.val)),
                                   Encode(TokenizerHandle(stream[c].gen), stream[c].prompt)))
    /\ [][ \A c \in Clients :
             (stream[c].pc # "none" /\ stream'[c].pc # "none") =>
                 Captured(c)' = Captured(c) ]_vars

\* C14 witness: a stream has sent its final chunk for the vector of the first
\* model into a full buffer nobody reads, after a second initialize succeeded
StreamingIndependentOfStoreWitness ==
    \E c \in Clients :
        /\ Presents(c)
        /\ stream[c].gen = 1
        /\ lastSucc = 2
        /\ HasFinal(stream[c].emitted)
        /\ stream[c].emitted = StreamPlan(stream[c])
        /\ Len(stream[c].chan) = ChannelCapacity

\* the step in which the client of c goes away
Disconnects(c) == stream[c].connected /\ stream'[c].pc # "none" /\ ~stream'[c].connected

\* C15: a task whose send has failed has returned, and what it emitted holds
\* chunks only, no error and no final chunk; once the client is gone a step
\* of the task emits nothing, and a step that attempts a send fails and ends
\* the task; after the failed send the stream changes no more until it is
\* discarded; the disconnect itself changes neither the Store nor the lock,
\* and the client that left does not hold the lock.
DisconnectEndsTaskSilently ==
    /\ [](\A c \in Clients :
            /\ stream[c].sendFailed =>
                  /\ stream[c].pc = "done"
                  /\ ~stream[c].connected
                  /\ \A k \in 1..Len(stream[c].emitted) :
                        stream[c].emitted[k].ok /\ ~stream[c].emitted[k].chunk.done
            /\ req[c].pc = "gone" => (lock # c /\ ~stream[c].connected))
    /\ [][ \A c \in Clients :
             /\ Disconnects(c) => (store' = store /\ lock' = lock)
             /\ (stream[c].pc # "none" /\ ~stream[c].connected /\ stream'[c] # stream[c]) =>
                   \/ stream'[c] = NoStream /\ stream[c].pc = "done"
                   \/ /\ stream'[c].emitted = stream[c].emitted
                      /\ stream'[c].chan = <<>>
                      /\ \/ stream'[c].sendFailed /\ stream'[c].pc = "done"
                         \/ stream[c].pc = "start" /\ stream'[c].pc = "header" ]_vars

\* C15 witness: the client left after a value chunk was sent; the next send
\* failed and the task returned, the Store still loaded and the lock free
DisconnectEndsTaskSilentlyWitness ==
    \E c \in Clients :
        /\ stream[c].sendFailed
        /\ stream[c].pc = "done"
        /\ req[c].pc = "gone"
        /\ \E k \in 1..Len(stream[c].emitted) : IsValueItem(stream[c].emitted[k])
        /\ IsLoaded(store)
        /\ lock = 0

\* the counters of the chunks in items, in order
Counters(items) == [k \in 1..Len(items) |-> items[k].chunk.tokens_generated]

\* C16: in a stream that presents a vector the counters of the emitted chunks
\* never decrease; the chunks of the header carry 0, the chunk that carries
\* the value of zero-based index i carries i, and the final chunk carries the
\* length of the vector.
CounterFollowsValues ==
    \A c \in Clients :
        Presents(c) =>
            LET e == stream[c].emitted
                n == Len(HeaderChars(stream[c].prompt, stream[c].result.val))
                v == stream[c].result.val
            IN  /\ \A k, l \in 1..Len(e) : k <= l => Counters(e)[k] <= Counters(e)[l]
                /\ \A k \in 1..Len(e) :
                      /\ e[k].ok
                      /\ k <= n =>
                            /\ Len(e[k].chunk.text) = 1
                            /\ ~e[k].chunk.done
                            /\ Counters(e)[k] = 0
                      /\ (n < k /\ k <= n + Len(v)) =>
                            /\ IsValueItem(e[k])
                            /\ from_bits(ParseHex8(SubSeq(e[k].chunk.text, 1, 8))) = v[k - n]
                            /\ Counters(e)[k] = k - n - 1
                      /\ k > n + Len(v) =>
                            /\ IsFinalItem(e[k])
                            /\ Counters(e)[k] = Len(v)

\* C16 witness: all chunks of a two-value stream are out, with counters
\* 0 .. 0, 0, 1, 2, and the consumer has not read them all
CounterFollowsValuesWitness ==
    \E c \in Clients :
        /\ Presents(c)
        /\ Len(stream[c].result.val) = 2
        /\ Counters(stream[c].emitted) = [k \in 1..MaxHeader |-> 0] \o << 0, 1, 2 >>
        /\ stream[c].chan # <<>>

PipelineErrors == PipelineOutcomes \ {"ok"}

\* the one item of a stream whose embedding failed with e
InternalErrorItem(e) ==
    [ok |-> FALSE, chunk |-> Chunk(<<>>, FALSE, 0),
     status |-> [code |-> "internal", message |-> << "Embedding error: ", e >>]]

\* the handler of c runs the pipeline on the Store and returns
PipelineReturns(c) == Embedding(c) /\ req'[c].pc # "run"

\* C17: an embed that ran on a loaded Store either succeeded or returned the
\* internal error that carries the pipeline's message; a generate whose
\* pipeline failed on a loaded Store emits nothing but one such error item,
\* which is the whole stream once the task has returned without a failed
\* send; the step that runs the pipeline leaves the Store as it was.
PipelineFailureIsInternal ==
    /\ [](\A c \in Clients :
            /\ (resp[c].kind = "embed" /\ resp[c].gen # 0 /\ resp[c].transport # "ok") =>
                  /\ resp[c].transport = "err"
                  /\ resp[c].status.code = "internal"
                  /\ \E e \in PipelineErrors :
                        resp[c].status.message = << "Embedding error: ", e >>
            /\ (stream[c].pc # "none" /\ stream[c].is_loaded /\ ~stream[c].result.ok) =>
                  /\ stream[c].result.err \in PipelineErrors
                  /\ IsPrefix(stream[c].emitted, << InternalErrorItem(stream[c].result.err) >>)
                  /\ (stream[c].pc = "done" /\ ~stream[c].sendFailed) =>
                        stream[c].emitted = << InternalErrorItem(stream[c].result.err) >>
                  /\ Delivered(c) =>
                        stream[c].received = << InternalErrorItem(stream[c].result.err) >>)
    /\ [][ \A c \in Clients : PipelineReturns(c) => store' = store ]_vars

\* C17 witness: on a loaded Store one client got the internal error from
\* embed and another received a stream made of the one internal error item
PipelineFailureIsInternalWitness ==
    \E c, d \in Clients :
        /\ resp[c].kind = "embed"
        /\ resp[c].gen # 0
        /\ resp[c].transport = "err"
        /\ stream[d].is_loaded
        /\ ~stream[d].result.ok
        /\ Delivered(d)
        /\ Len(stream[d].received) = 1
        /\ IsLoaded(store)
        /\ Unwrap(store.model).lid = stream[d].gen

\* the load of c has gone through the resolution of its source
Resolved(c) == req[c].op = "init" /\ req[c].pc \in (LoadSteps \ {"resolve"})

IsLocal(path) == \A i \in 1..Len(path) : path[i] # "/"

Missing(files) == {k \in 1..3 : ~files[k]}

FirstMissing(files) == CHOOSE k \in Missing(files) : \A l \in Missing(files) : k <= l

\* C18: a load reports a repository error only for a source with a '/' and a
\* file-not-found error only for one without; a load from a local source
\* that lacks any of the three files has failed at once, naming the first
\* missing file in the order tokenizer.json, config.json, model.safetensors,
\* with no tokenizer parsed, no config read, no model built and the Store as
\* it was.
LocalSourceNeedsAllFiles ==
    \A c \in Clients :
        Resolved(c) =>
            /\ (~req[c].result.ok /\ req[c].result.err.kind = "hub") => ~IsLocal(req[c].arg)
            /\ (~req[c].result.ok /\ req[c].result.err.kind = "not found") =>
                  IsLocal(req[c].arg)
            /\ (~IsLocal(req[c].arg) /\ Missing(req[c].files) # {}) =>
                  /\ ~req[c].result.ok
                  /\ req[c].result.err.kind = "hub"
            /\ (IsLocal(req[c].arg) /\ Missing(req[c].files) # {}) =>
                  /\ req[c].pc = "respond"
                  /\ ~req[c].result.ok
                  /\ req[c].result.err.kind = "not found"
                  /\ req[c].result.err.file = ArtifactNames[FirstMissing(req[c].files)]
                  /\ req[c].tokenizer = None
                  /\ req[c].hidden = 0
                  /\ req[c].model = None
                  /\ store = req[c].store0

\* C18 witness: a local directory holds tokenizer.json only and the load
\* has failed naming config.json
LocalSourceNeedsAllFilesWitness ==
    \E c \in Clients :
        /\ Resolved(c)
        /\ IsLocal(req[c].arg)
        /\ req[c].files = << TRUE, FALSE, FALSE >>
        /\ req[c].pc = "respond"
        /\ req[c].result.err.file = "config.json"

ReadOnlyOps == {"embed", "generate", "model_info", "health"}

\* C19: a step that changes any field of the Store is a step of a load
\* running inside an initialize that holds the lock; no step of an embed,
\* generate, model_info or health call, of a streaming task or of its
\* consumer changes the Store, whatever the call returns.
OnlyInitializeChangesStore ==
    [][ /\ store' # store =>
              \E c \in Clients :
                  /\ req[c].op = "init"
                  /\ req[c].pc \in LoadSteps
                  /\ lock = c
                  /\ req'[c] # req[c]
        /\ \A c \in Clients :
              (req[c].op \in ReadOnlyOps /\ (req'[c] # req[c] \/ stream'[c] # stream[c])) =>
                  store' = store ]_vars

\* C19 witness: on the Store of the first load, health has answered and a
\* generate stream has been delivered whole, and every field of the Store is
\* what that load wrote
OnlyInitializeChangesStoreWitness ==
    \E c, d \in Clients :
        /\ resp[c].kind = "health"
        /\ resp[c].gen = 1
        /\ Presents(d)
        /\ Delivered(d)
        /\ stream[d].gen = 1
        /\ store = [ model |-> Some(ModelHandle(1, 2)), tokenizer |-> Some(TokenizerHandle(1)),
                     device |-> "Cpu", model_path |-> lastSource, embedding_dim |-> 2 ]

\* the task of c ended in one of its three ways
EndedProperly(c) ==
    \/ stream[c].sendFailed
    \/ /\ stream[c].emitted # <<>>
       /\ \/ IsFinalItem(Last(stream[c].emitted))
          \/ ~Last(stream[c].emitted).ok

\* the step in which the handler of c returns
HandlerReturns(c) == HoldsStore(c) /\ req'[c].pc \notin (LoadSteps \cup {"run"})

\* C20: the lock is held only by a handler between taking it and returning,
\* and the step in which a handler returns, with success or with an error,
\* frees the lock and leaves a response; a task that has returned has sent
\* the final chunk or an error item or has had a send fail; under fair
\* scheduling, with loads and forward passes that terminate and a consumer
\* that keeps receiving or leaves, every call in progress comes to its end:
\* it gets the lock and its response, and its streaming task returns.
EveryCallReturns ==
    /\ [](\A c \in Clients :
            /\ lock = c => HoldsStore(c)
            /\ stream[c].pc = "done" => EndedProperly(c)
            /\ req[c].pc \in {"streaming", "gone"} =>
                  (resp[c].kind = "generate" /\ stream[c].pc # "none"))
    /\ [][ \A c \in Clients :
             HandlerReturns(c) => (lock' = 0 /\ resp'[c].kind # "none") ]_vars
    /\ \A c \in Clients : (req[c].pc # "idle") ~> (req[c].pc = "idle")

\* C20 witness: an initialize has returned a failure and the task of a
\* stream whose client left has returned, the lock being free, while the
\* other client waits for the lock
EveryCallReturnsWitness ==
    \E c, d \in Clients :
        /\ req[c].pc = "gone"
        /\ stream[c].pc = "done"
        /\ req[d].pc = "lock"
        /\ lock = 0
        /\ lastSucc = 1
        /\ loads = 2

====
